---- MODULE Spec2Model ----
(***************************************************************************)
(* Model of navc's file handler (files.go): the central event loop         *)
(* handleFiles with its parse scheduler (queueFileToParse /                *)
(* doneFileToParse), the parseFiles workers, the change event router       *)
(* (handleChange), the startup reconciliation (exploreIndexDir) and the    *)
(* shutdown sequence (closeFilesHandler).                                   *)
(*                                                                         *)
(* Paths are sequences of one-character strings, so that the regular       *)
(* expressions and filepath.Base of the source are computed on the text    *)
(* of the path.  Channels are unbuffered: a send is a rendezvous, and a    *)
(* task that sends with no receiver ready stays at the send.               *)
(***************************************************************************)
EXTENDS Integers, Sequences, FiniteSets, Bags, TLC

\* ------------------------------------------------------------------------
\* Bounds
\* ------------------------------------------------------------------------
\* number of parseFiles workers (inputIndexThreads)
NThreads == 2

nIndexingThreads == NThreads

\* number of filesystem events the watcher delivers
MaxEvents == 1

\* ------------------------------------------------------------------------
\* Paths
\* ------------------------------------------------------------------------
NoPath == <<>>

P    == <<"p">>
PA   == <<"p", "/", "a", ".", "c">>
PB   == <<"p", "/", "b", ".", "h">>
PC   == <<"p", "/", "c", ".", "c">>
PD   == <<"p", "/", "d">>
PDG  == <<"p", "/", "d", "/", ".", "g">>
PDGY == <<"p", "/", "d", "/", ".", "g", "/", "y", ".", "c">>
PDX  == <<"p", "/", "d", "/", ".", "x", ".", "c">>
PO   == <<"p", "/", "o", ".", "c">>
POH  == <<"p", "/", "o", ".", "h">>
SH   == <<"/", "u", "s", "r", "/", "i", "n", "c", "l", "u", "d", "e", "/", "s", ".", "h">>

\* the indexed tree as filepath.Walk lists it: pre-order, names in lexical
\* order (p/o.c, p/o.h and the system header are not in the tree)
Disk ==
  << [path |-> P,    dir |-> TRUE],
     [path |-> PA,   dir |-> FALSE],
     [path |-> PB,   dir |-> FALSE],
     [path |-> PC,   dir |-> FALSE],
     [path |-> PD,   dir |-> TRUE],
     [path |-> PDG,  dir |-> TRUE],
     [path |-> PDGY, dir |-> FALSE],
     [path |-> PDX,  dir |-> FALSE] >>

DiskPaths == {Disk[i].path : i \in 1..Len(Disk)}

AllPaths == DiskPaths \cup {PO, POH, SH}

\* the root given on the command line
indexDir == <<P>>

LastSlash(p) ==
  LET I == {i \in 1..Len(p) : p[i] = "/"}
  IN  IF I = {} THEN 0 ELSE CHOOSE i \in I : \A j \in I : j <= i

\* filepath.Base
Base(p) == IF p = <<>> THEN <<".">> ELSE SubSeq(p, LastSlash(p) + 1, Len(p))

\* the directory whose watch reports an event named p
ParentDir(p) == IF LastSlash(p) = 0 THEN <<".">> ELSE SubSeq(p, 1, LastSlash(p) - 1)

\* strings.HasPrefix
HasPrefix(p, pre) == Len(pre) <= Len(p) /\ SubSeq(p, 1, Len(pre)) = pre

\* regexp ^[^\.].*\.c$ matched against the whole path
validCString(p) == Len(p) >= 3 /\ p[1] # "." /\ p[Len(p) - 1] = "." /\ p[Len(p)] = "c"

\* regexp ^[^\.].*\.h$ matched against the whole path
validHString(p) == Len(p) >= 3 /\ p[1] # "." /\ p[Len(p) - 1] = "." /\ p[Len(p)] = "h"

sysInclDir ==
  { <<"/", "u", "s", "r", "/", "i", "n", "c", "l", "u", "d", "e", "/">>,
    <<"/", "u", "s", "r", "/", "l", "i", "b", "/">> }

isSysInclDir(p) == \E incl \in sysInclDir : HasPrefix(p, incl)

\* all orders of a finite set
Perms(S) == {s \in [1..Cardinality(S) -> S] : \A i, j \in 1..Cardinality(S) : s[i] = s[j] => i = j}

\* ------------------------------------------------------------------------
\* traversePath
\* ------------------------------------------------------------------------
RECURSIVE Traverse(_, _)
Traverse(es, skipped) ==
  IF es = <<>> THEN <<>>
  ELSE LET e == Head(es)
       IN  IF \E s \in skipped : HasPrefix(e.path, s \o <<"/">>)
           THEN Traverse(Tail(es), skipped)
           ELSE IF e.dir
           THEN IF Base(e.path) # <<".">> /\ Base(e.path)[1] = "."
                THEN Traverse(Tail(es), skipped \cup {e.path})
                ELSE <<[op |-> "dir", path |-> e.path]>> \o Traverse(Tail(es), skipped)
           ELSE IF validCString(e.path)
           THEN <<[op |-> "c", path |-> e.path]>> \o Traverse(Tail(es), skipped)
           ELSE <<[op |-> "rest", path |-> e.path]>> \o Traverse(Tail(es), skipped)

Under(root) == LET In(e) == e.path = root \/ HasPrefix(e.path, root \o <<"/">>)
               IN  SelectSeq(Disk, In)

\* the visits traversePath makes from root, in order
traversePath(root) == Traverse(Under(root), {})

\* ------------------------------------------------------------------------
\* The symbols database (symbols-db.go), as the file handler uses it
\* ------------------------------------------------------------------------
\* the headers a translation unit includes
IncludesOf(f) ==
  IF f = PA THEN {PB, SH}
  ELSE IF f = PC THEN {PB}
  ELSE IF f = PO THEN {POH}
  ELSE {}

\* the databases the daemon may find on disk when it starts
InitDBs == { {}, {PA, PC, PO} }

\* db.GetIncluders: the translation units recorded as including header h
GetIncluders(tus, h) == {f \in tus : h \in IncludesOf(f)}

\* db.FileExist: the database has a record of exactly this path
FileExist(tus, p) == p \in tus \/ \E f \in tus : p \in IncludesOf(f)

\* db.GetSetFilesInDB
GetSetFilesInDB(tus) == tus \cup UNION {IncludesOf(f) : f \in tus}

\* ------------------------------------------------------------------------
\* State
\* ------------------------------------------------------------------------
VARIABLES
  inFlight,      \* set of paths handed to a worker
  toParseMap,    \* membership set of the backlog
  toParseQueue,  \* the backlog, a sequence of paths
  watched,       \* directories registered with the fsnotify watcher
  dbTU,          \* translation units the database has a snapshot of
  dbStale,       \* history: units whose committed snapshot was parsed before a later request
  jobs,          \* bag of [file, stale]: the parses the parseFiles goroutines hold
  nExited,       \* number of parseFiles goroutines that returned
  loopPc,        \* handleFiles: "select", "send" (at parseFile <- f) or "exit"
  parseFileMsg,  \* the path handleFiles is sending on parseFile
  pend,          \* what is left of the handler that is at the send
  expPc,         \* exploreIndexDir: "run" or "done"
  expIdx,        \* next visit of the startup walk
  notExplored,   \* exploreIndexDir's set of known files not seen yet
  mainPc,        \* closeFilesHandler: "running", "closedParse", "closedDone", "wait", "flushed"
  panicked,      \* a goroutine sent on a closed channel
  lastCase,      \* history: the case of the select the loop took last
  reqs,          \* history: paths passed to queueFileToParse by that handler
  dbops,         \* history: database writes made by that handler
  nEvents,       \* number of watcher events handled so far
  removed,       \* history: source files a remove or rename event took out of the
                 \* database and no handler requested since
  ca,            \* newParser: a run of getCompArgs on one compilation database entry
  tu             \* Parse: the cursor tree of a file and the snapshot built from it

vars == << inFlight, toParseMap, toParseQueue, watched, dbTU, dbStale, jobs, nExited,
           loopPc, parseFileMsg, pend, expPc, expIdx, notExplored, mainPc,
           panicked, lastCase, reqs, dbops, nEvents, removed, ca, tu >>

\* the parser is not looked at
NoRun == [pc |-> "none"]

\* the goroutines are alike and keep nothing between two parses: a worker is
\* either at the receive of its range loop (idle), holds a parse (a member
\* of jobs, from the receive to the end of its send on doneFile), or returned
nIdle == nIndexingThreads - BagCardinality(jobs) - nExited

parseFileClosed == mainPc # "running"

doneFileClosed == mainPc \notin {"running", "closedParse"}

watcherClosed == mainPc \in {"wait", "flushed"}

\* the state the loop owns, at the start of a handler
Cur ==
  [ inFlight |-> inFlight, toParseMap |-> toParseMap, toParseQueue |-> toParseQueue,
    watched |-> watched, dbTU |-> dbTU, dbStale |-> dbStale, jobs |-> jobs,
    reqs |-> <<>>, dbops |-> <<>>, msg |-> NoPath, pend |-> <<>> ]

\* ------------------------------------------------------------------------
\* Parse scheduler
\* ------------------------------------------------------------------------
Job(f, stale) == [file |-> f, stale |-> stale]

\* history: a request for f arrives while workers hold a parse of f
MarkStale(b, f) ==
  LET n == CopiesIn(Job(f, FALSE), b)
  IN  IF n = 0 THEN b
      ELSE (b (-) [j \in {Job(f, FALSE)} |-> n]) (+) [j \in {Job(f, TRUE)} |-> n]

\* a faulty queueFileToParse: the path it dispatches is appended to the
\* backlog as well
queueFileToParseAlsoQueued(c, f) ==
  LET c1 == [c EXCEPT !.reqs = Append(@, f), !.jobs = MarkStale(@, f)]
  IN  IF Cardinality(c1.inFlight) < nIndexingThreads /\ f \notin c1.inFlight
      THEN [c1 EXCEPT !.inFlight = @ \cup {f}, !.msg = f,
                      !.toParseMap = @ \cup {f}, !.toParseQueue = Append(@, f)]
      ELSE IF f \notin c1.toParseMap
      THEN [c1 EXCEPT !.toParseMap = @ \cup {f}, !.toParseQueue = Append(@, f)]
      ELSE c1

\* queueFileToParse up to its send on parseFile (msg is the path at the send)
queueFileToParse(c, f) ==
  LET c1 == [c EXCEPT !.reqs = Append(@, f), !.jobs = MarkStale(@, f)]
  IN  IF Cardinality(c1.inFlight) < nIndexingThreads /\ f \notin c1.inFlight
      THEN [c1 EXCEPT !.inFlight = @ \cup {f}, !.msg = f]
      ELSE IF f \notin c1.toParseMap
      THEN [c1 EXCEPT !.toParseMap = @ \cup {f}, !.toParseQueue = Append(@, f)]
      ELSE c1

\* the visitors of handleDirChange and the loop of queueFilesToParse, run
\* until a send on parseFile; the visits not made yet are kept in pend
RECURSIVE visit(_, _)
visit(c, steps) ==
  IF steps = <<>> THEN [c EXCEPT !.pend = <<>>]
  ELSE LET s == Head(steps)
       IN  IF s.op = "dir"
           THEN visit([c EXCEPT !.watched = @ \cup {s.path}], Tail(steps))
           ELSE IF s.op = "c"
           THEN LET c2 == queueFileToParse(c, s.path)
                IN  IF c2.msg # NoPath
                    THEN [c2 EXCEPT !.pend = Tail(steps)]
                    ELSE visit(c2, Tail(steps))
           ELSE visit(c, Tail(steps))

queueFilesToParse(c, files) ==
  visit(c, [i \in 1..Len(files) |-> [op |-> "c", path |-> files[i]]])

\* db.InsertTUDB
InsertTUDB(c, tudb) ==
  [c EXCEPT !.dbTU = @ \cup {tudb.file},
            !.dbStale = IF tudb.stale THEN @ \cup {tudb.file} ELSE @ \ {tudb.file},
            !.dbops = Append(@, [op |-> "insert", path |-> tudb.file, stale |-> tudb.stale])]

\* db.RemoveFileReferences
RemoveFileReferences(c, f) ==
  [c EXCEPT !.dbTU = @ \ {f}, !.dbStale = @ \ {f},
            !.dbops = Append(@, [op |-> "remove", path |-> f, stale |-> FALSE])]

\* a faulty doneFileToParse: the path appended last is dispatched
doneFileToParseLast(c, tudb) ==
  LET c1 == IF tudb.file \notin c.toParseMap THEN InsertTUDB(c, tudb) ELSE c
      c2 == [c1 EXCEPT !.inFlight = @ \ {tudb.file}]
  IN  IF c2.toParseQueue = <<>>
      THEN c2
      ELSE LET filePath == c2.toParseQueue[Len(c2.toParseQueue)]
           IN  [c2 EXCEPT !.toParseQueue = SubSeq(@, 1, Len(@) - 1),
                          !.toParseMap = @ \ {filePath},
                          !.inFlight = @ \cup {filePath},
                          !.msg = filePath]

\* a faulty doneFileToParse: the path popped from the backlog keeps its mark
\* in the membership set
doneFileToParseKeepMark(c, tudb) ==
  LET c1 == IF tudb.file \notin c.toParseMap THEN InsertTUDB(c, tudb) ELSE c
      c2 == [c1 EXCEPT !.inFlight = @ \ {tudb.file}]
  IN  IF c2.toParseQueue = <<>>
      THEN c2
      ELSE LET filePath == Head(c2.toParseQueue)
           IN  [c2 EXCEPT !.toParseQueue = Tail(@),
                          !.inFlight = @ \cup {filePath},
                          !.msg = filePath]

\* a faulty doneFileToParse: the finished path is left in the in-flight set
doneFileToParseNoDelete(c, tudb) ==
  LET c1 == IF tudb.file \notin c.toParseMap THEN InsertTUDB(c, tudb) ELSE c
  IN  IF c1.toParseQueue = <<>>
      THEN c1
      ELSE LET filePath == Head(c1.toParseQueue)
           IN  [c1 EXCEPT !.toParseQueue = Tail(@),
                          !.toParseMap = @ \ {filePath},
                          !.inFlight = @ \cup {filePath},
                          !.msg = filePath]

\* doneFileToParse up to its send on parseFile
doneFileToParse(c, tudb) ==
  LET c1 == IF tudb.file \notin c.toParseMap THEN InsertTUDB(c, tudb) ELSE c
      c2 == [c1 EXCEPT !.inFlight = @ \ {tudb.file}]
  IN  IF c2.toParseQueue = <<>>
      THEN c2
      ELSE LET filePath == Head(c2.toParseQueue)
           IN  [c2 EXCEPT !.toParseQueue = Tail(@),
                          !.toParseMap = @ \ {filePath},
                          !.inFlight = @ \cup {filePath},
                          !.msg = filePath]

\* a faulty parseIncluders: the first includer is not requested
parseIncludersSkipFirst(c, order) ==
  queueFilesToParse(c, IF order = <<>> THEN order ELSE Tail(order))

\* parseIncluders; order is the slice db.GetIncluders returned
parseIncluders(c, order) == queueFilesToParse(c, order)

\* ------------------------------------------------------------------------
\* Change event router
\* ------------------------------------------------------------------------
\* a faulty handleFileChange: a removed or renamed source file keeps its
\* records in the database
handleFileChangeNoRemove(c, name, op, order) ==
  IF validCString(name)
  THEN IF op \cap {"Create", "Write"} # {}
       THEN queueFilesToParse(c, <<name>>)
       ELSE c
  ELSE IF validHString(name)
  THEN IF op \cap {"Write", "Remove", "Rename", "Create"} # {}
       THEN parseIncluders(c, order)
       ELSE c
  ELSE c

\* handleFileChange; order is the slice db.GetIncluders returns for name
handleFileChange(c, name, op, order) ==
  IF validCString(name)
  THEN IF op \cap {"Create", "Write"} # {}
       THEN queueFilesToParse(c, <<name>>)
       ELSE IF op \cap {"Remove", "Rename"} # {}
       THEN RemoveFileReferences(c, name)
       ELSE c
  ELSE IF validHString(name)
  THEN IF op \cap {"Write", "Remove", "Rename", "Create"} # {}
       THEN parseIncluders(c, order)
       ELSE c
  ELSE c

\* stat is what os.Stat found when the event is handled; a path that is not
\* there makes filepath.Walk report an error for it and visit nothing
handleDirChange(c, name, op, stat) ==
  IF op \cap {"Create"} # {}
  THEN visit(c, IF stat = "dir" THEN traversePath(name) ELSE <<>>)
  ELSE IF op \cap {"Remove", "Rename"} # {}
  THEN [c EXCEPT !.watched = @ \ {name}]
  ELSE c

handleChange(c, name, op, stat, order) ==
  IF Base(name)[1] = "."
  THEN c
  ELSE IF stat = "error"
  THEN c
  ELSE LET isDir == IF stat = "notexist" THEN ~FileExist(c.dbTU, name) ELSE stat = "dir"
       IN  IF isDir THEN handleDirChange(c, name, op, stat)
           ELSE handleFileChange(c, name, op, order)

\* ------------------------------------------------------------------------
\* Actions
\* ------------------------------------------------------------------------
\* history: removed after a handler that left the loop's state c; byEvent
\* tells that the handler is handleChange
RemovedAfter(c, byEvent) ==
  (removed \cup (IF byEvent
                 THEN {c.dbops[i].path : i \in {j \in DOMAIN c.dbops : c.dbops[j].op = "remove"}}
                 ELSE {}))
    \ {c.reqs[i] : i \in DOMAIN c.reqs}

\* the loop's state after a handler ran to its end or to a send on parseFile
Commit(c) ==
  /\ inFlight' = c.inFlight
  /\ toParseMap' = c.toParseMap
  /\ toParseQueue' = c.toParseQueue
  /\ watched' = c.watched
  /\ dbTU' = c.dbTU
  /\ dbStale' = c.dbStale
  /\ jobs' = c.jobs
  /\ reqs' = c.reqs
  /\ dbops' = c.dbops
  /\ parseFileMsg' = c.msg
  /\ pend' = c.pend
  /\ loopPc' = IF c.msg = NoPath THEN "select" ELSE "send"

\* fsnotify operations of one event
Ops == { {"Create"}, {"Write"}, {"Remove"}, {"Rename"}, {"Chmod"} }

Stats == {"file", "dir", "notexist", "error"}

\* the directory of each path of the model
Parent == [p \in AllPaths |-> ParentDir(p)]

\* what os.Stat can report for the target when the event is handled: what
\* the tree holds there, nothing (the target is gone), or an error
StatResults ==
  [p \in AllPaths |->
     IF \E i \in 1..Len(Disk) : Disk[i].path = p /\ Disk[i].dir
     THEN {"dir", "notexist", "error"}
     ELSE {"file", "notexist", "error"}]

\* the watcher can deliver an event for name, for which os.Stat then reports
\* stat, and the loop is at its select to receive it; the watcher reports
\* the entries of the directories it watches
CanHandle(name, stat) ==
  /\ loopPc = "select" /\ ~panicked /\ ~watcherClosed
  /\ name \in DiskPaths /\ Parent[name] \in watched
  /\ stat \in StatResults[name]

\* the state of the loop after handleChange ran to its end or to its first
\* send on parseFile
AfterEvent(name, op, stat, order) == handleChange(Cur, name, op, stat, order)

\* case event := <-watcher.Events
HandleChange(name, op, stat) ==
  /\ CanHandle(name, stat)
  /\ nEvents < MaxEvents
  /\ \E order \in Perms(GetIncluders(dbTU, name)) :
        /\ Commit(AfterEvent(name, op, stat, order))
        /\ removed' = RemovedAfter(AfterEvent(name, op, stat, order), TRUE)
  /\ lastCase' = "event"
  /\ nEvents' = nEvents + 1
  /\ UNCHANGED << nExited, expPc, expIdx, notExplored, mainPc, panicked, ca, tu >>

\* a worker receives the path the loop is sending; the loop goes on with
\* the rest of its handler
RecvParseFile ==
  /\ loopPc = "send" /\ ~panicked /\ ~parseFileClosed
  /\ nIdle > 0
  /\ LET c0 == [Cur EXCEPT !.reqs = reqs, !.dbops = dbops,
                           !.jobs = jobs (+) SetToBag({Job(parseFileMsg, FALSE)})]
     IN  /\ Commit(visit(c0, pend))
         /\ removed' = RemovedAfter(visit(c0, pend), FALSE)
  /\ UNCHANGED << nExited, expPc, expIdx, notExplored, mainPc, panicked, lastCase, nEvents, ca, tu >>

\* a worker finishes pa.Parse and the loop receives the snapshot:
\* case tudb, ok := <-doneFile
DoneFile(tudb) ==
  /\ loopPc = "select" /\ ~panicked /\ ~doneFileClosed
  /\ BagIn(tudb, jobs)
  /\ LET c0 == [Cur EXCEPT !.jobs = jobs (-) SetToBag({tudb})]
     IN  /\ Commit(doneFileToParse(c0, tudb))
         /\ removed' = RemovedAfter(doneFileToParse(c0, tudb), FALSE)
  /\ lastCase' = "doneFile"
  /\ UNCHANGED << nExited, expPc, expIdx, notExplored, mainPc, panicked, nEvents, ca, tu >>

\* the visits of the startup walk
ExploreList == traversePath(indexDir[1])

InWalk == expPc = "run" /\ expIdx <= Len(ExploreList)

InPrune == expPc = "run" /\ expIdx > Len(ExploreList)

\* exploreIndexDir, visitorDir
ExploreVisitDir ==
  /\ InWalk /\ ~panicked
  /\ ExploreList[expIdx].op = "dir"
  /\ watched' = IF watcherClosed THEN watched ELSE watched \cup {ExploreList[expIdx].path}
  /\ expIdx' = expIdx + 1
  /\ UNCHANGED << inFlight, toParseMap, toParseQueue, dbTU, dbStale, jobs, nExited, loopPc,
                  parseFileMsg, pend, expPc, notExplored, mainPc, panicked, lastCase,
                  reqs, dbops, nEvents, removed, ca, tu >>

\* a faulty foundFile case: the error of db.UptodateFile is not looked at
foundFileIgnoreErr(c, file, exist, uptodate, err) ==
  IF ~exist \/ ~uptodate THEN queueFilesToParse(c, <<file>>) ELSE c

\* the handler of case file := <-foundFile; exist, uptodate and err are what
\* db.UptodateFile returns
foundFile(c, file, exist, uptodate, err) ==
  IF ~err /\ (~exist \/ ~uptodate) THEN queueFilesToParse(c, <<file>>) ELSE c

\* exploreIndexDir, visitorC, and case file := <-foundFile; a file the
\* database has no record of is not up to date
FoundFile(uptodate, err) ==
  /\ InWalk /\ ~panicked /\ loopPc = "select"
  /\ ExploreList[expIdx].op = "c"
  /\ LET file  == ExploreList[expIdx].path
         exist == file \in dbTU
     IN  /\ exist \/ ~uptodate
         /\ Commit(foundFile(Cur, file, exist, uptodate, err))
         /\ removed' = RemovedAfter(foundFile(Cur, file, exist, uptodate, err), FALSE)
         /\ notExplored' = notExplored \ {file}
  /\ lastCase' = "foundFile"
  /\ expIdx' = expIdx + 1
  /\ UNCHANGED << nExited, expPc, mainPc, panicked, nEvents, ca, tu >>

\* exploreIndexDir, visitorRest, and case header := <-foundHeader
FoundHeader ==
  /\ InWalk /\ ~panicked /\ loopPc = "select"
  /\ ExploreList[expIdx].op = "rest"
  /\ LET header == ExploreList[expIdx].path
     IN  /\ \E order \in Perms(GetIncluders(dbTU, header)) :
               /\ Commit(parseIncluders(Cur, order))
               /\ removed' = RemovedAfter(parseIncluders(Cur, order), FALSE)
         /\ notExplored' = notExplored \ {header}
  /\ lastCase' = "foundHeader"
  /\ expIdx' = expIdx + 1
  /\ UNCHANGED << nExited, expPc, mainPc, panicked, nEvents, ca, tu >>

\* exploreIndexDir, a known file under a system include directory that the
\* walk did not see, and case header := <-foundHeader
FoundSysHeader(path) ==
  /\ InPrune /\ ~panicked /\ loopPc = "select"
  /\ path \in notExplored /\ isSysInclDir(path)
  /\ \E order \in Perms(GetIncluders(dbTU, path)) :
        /\ Commit(parseIncluders(Cur, order))
        /\ removed' = RemovedAfter(parseIncluders(Cur, order), FALSE)
  /\ lastCase' = "foundHeader"
  /\ notExplored' = notExplored \ {path}
  /\ UNCHANGED << nExited, expPc, expIdx, mainPc, panicked, nEvents, ca, tu >>

\* a faulty removeFile case: a header is treated like any other file
removeFileAlways(c, file, order) == RemoveFileReferences(c, file)

\* the handler of case file := <-removeFile; order is the slice
\* db.GetIncluders returns for file
removeFile(c, file, order) ==
  IF validHString(file) THEN parseIncluders(c, order)
  ELSE RemoveFileReferences(c, file)

\* exploreIndexDir, a known file the walk did not see, and
\* case file := <-removeFile; the paths left in notExplored are those the
\* range loop has not reached
RemoveFile(path) ==
  /\ InPrune /\ ~panicked /\ loopPc = "select"
  /\ path \in notExplored /\ ~isSysInclDir(path)
  /\ \E order \in Perms(GetIncluders(dbTU, path)) :
        /\ Commit(removeFile(Cur, path, order))
        /\ removed' = RemovedAfter(removeFile(Cur, path, order), FALSE)
  /\ lastCase' = "removeFile"
  /\ notExplored' = notExplored \ {path}
  /\ UNCHANGED << nExited, expPc, expIdx, mainPc, panicked, nEvents, ca, tu >>

\* exploreIndexDir returns
ExploreDone ==
  /\ InPrune /\ ~panicked
  /\ notExplored = {}
  /\ expPc' = "done"
  /\ UNCHANGED << inFlight, toParseMap, toParseQueue, watched, dbTU, dbStale, jobs, nExited,
                  loopPc, parseFileMsg, pend, expIdx, notExplored, mainPc, panicked,
                  lastCase, reqs, dbops, nEvents, removed, ca, tu >>

\* closeFilesHandler: close(parseFile)
CloseParseFile ==
  /\ mainPc = "running" /\ ~panicked
  /\ mainPc' = "closedParse"
  /\ UNCHANGED << inFlight, toParseMap, toParseQueue, watched, dbTU, dbStale, jobs, nExited,
                  loopPc, parseFileMsg, pend, expPc, expIdx, notExplored, panicked,
                  lastCase, reqs, dbops, nEvents, removed, ca, tu >>

\* closeFilesHandler: close(doneFile)
CloseDoneFile ==
  /\ mainPc = "closedParse" /\ ~panicked
  /\ mainPc' = "closedDone"
  /\ UNCHANGED << inFlight, toParseMap, toParseQueue, watched, dbTU, dbStale, jobs, nExited,
                  loopPc, parseFileMsg, pend, expPc, expIdx, notExplored, panicked,
                  lastCase, reqs, dbops, nEvents, removed, ca, tu >>

\* closeFilesHandler: watcher.Close()
WatcherClose ==
  /\ mainPc = "closedDone" /\ ~panicked
  /\ mainPc' = "wait"
  /\ UNCHANGED << inFlight, toParseMap, toParseQueue, watched, dbTU, dbStale, jobs, nExited,
                  loopPc, parseFileMsg, pend, expPc, expIdx, notExplored, panicked,
                  lastCase, reqs, dbops, nEvents, removed, ca, tu >>

\* every goroutine of the wait group has returned
AllDone ==
  /\ loopPc = "exit"
  /\ expPc = "done"
  /\ nExited = nIndexingThreads

\* closeFilesHandler: wg.Wait() returns, then db.FlushDB(time.Now())
FinalFlush ==
  /\ mainPc = "wait" /\ ~panicked
  /\ AllDone
  /\ mainPc' = "flushed"
  /\ UNCHANGED << inFlight, toParseMap, toParseQueue, watched, dbTU, dbStale, jobs, nExited,
                  loopPc, parseFileMsg, pend, expPc, expIdx, notExplored, panicked,
                  lastCase, reqs, dbops, nEvents, removed, ca, tu >>

\* parseFiles: range parseFile ends on the closed channel
WorkerExit ==
  /\ ~panicked /\ parseFileClosed
  /\ nIdle > 0
  /\ nExited' = nExited + 1
  /\ UNCHANGED << inFlight, toParseMap, toParseQueue, watched, dbTU, dbStale, jobs,
                  loopPc, parseFileMsg, pend, expPc, expIdx, notExplored, mainPc,
                  panicked, lastCase, reqs, dbops, nEvents, removed, ca, tu >>

\* parseFiles: doneFile <- pa.Parse(file) on the closed channel
WorkerSendPanic ==
  /\ ~panicked /\ doneFileClosed
  /\ jobs # EmptyBag
  /\ panicked' = TRUE
  /\ UNCHANGED << inFlight, toParseMap, toParseQueue, watched, dbTU, dbStale, jobs, nExited,
                  loopPc, parseFileMsg, pend, expPc, expIdx, notExplored, mainPc,
                  lastCase, reqs, dbops, nEvents, removed, ca, tu >>

\* handleFiles: parseFile <- filePath on the closed channel
LoopSendPanic ==
  /\ ~panicked /\ parseFileClosed
  /\ loopPc = "send"
  /\ panicked' = TRUE
  /\ UNCHANGED << inFlight, toParseMap, toParseQueue, watched, dbTU, dbStale, jobs, nExited,
                  loopPc, parseFileMsg, pend, expPc, expIdx, notExplored, mainPc,
                  lastCase, reqs, dbops, nEvents, removed, ca, tu >>

\* handleFiles: the receive on the closed doneFile, if !ok { return }
LoopExit ==
  /\ ~panicked /\ doneFileClosed
  /\ loopPc = "select"
  /\ loopPc' = "exit"
  /\ UNCHANGED << inFlight, toParseMap, toParseQueue, watched, dbTU, dbStale, jobs, nExited,
                  parseFileMsg, pend, expPc, expIdx, notExplored, mainPc, panicked,
                  lastCase, reqs, dbops, nEvents, removed, ca, tu >>

\* startFilesHandler
Init ==
  /\ inFlight = {}
  /\ toParseMap = {}
  /\ toParseQueue = <<>>
  /\ watched = {}
  /\ dbTU \in InitDBs
  /\ dbStale = {}
  /\ jobs = EmptyBag
  /\ nExited = 0
  /\ loopPc = "select"
  /\ parseFileMsg = NoPath
  /\ pend = <<>>
  /\ expPc = "run"
  /\ expIdx = 1
  /\ notExplored = GetSetFilesInDB(dbTU)
  /\ mainPc = "running"
  /\ panicked = FALSE
  /\ lastCase = "none"
  /\ reqs = <<>>
  /\ dbops = <<>>
  /\ nEvents = 0
  /\ removed = {}
  /\ ca = NoRun
  /\ tu = NoRun

Parseable == {p \in AllPaths : validCString(p)}

AllJobs == {Job(f, s) : f \in Parseable, s \in BOOLEAN}

\* the daemon at work: the startup walk, filesystem events, parses
Next ==
  \/ \E name \in DiskPaths, op \in Ops, stat \in Stats : HandleChange(name, op, stat)
  \/ RecvParseFile
  \/ \E tudb \in AllJobs : DoneFile(tudb)
  \/ ExploreVisitDir
  \/ \E uptodate, err \in BOOLEAN : FoundFile(uptodate, err)
  \/ FoundHeader
  \/ \E path \in AllPaths : FoundSysHeader(path)
  \/ \E path \in AllPaths : RemoveFile(path)
  \/ ExploreDone

Spec == Init /\ [][Next]_vars

\* the daemon shut down at any moment of its start
NextClose ==
  \/ RecvParseFile
  \/ \E tudb \in AllJobs : DoneFile(tudb)
  \/ ExploreVisitDir
  \/ \E uptodate, err \in BOOLEAN : FoundFile(uptodate, err)
  \/ FoundHeader
  \/ \E path \in AllPaths : FoundSysHeader(path)
  \/ \E path \in AllPaths : RemoveFile(path)
  \/ ExploreDone
  \/ CloseParseFile
  \/ CloseDoneFile
  \/ WatcherClose
  \/ FinalFlush
  \/ WorkerExit
  \/ WorkerSendPanic
  \/ LoopSendPanic
  \/ LoopExit

SpecClose == Init /\ [][NextClose]_vars

\* ------------------------------------------------------------------------
\* Compilation arguments (parse.go)
\* ------------------------------------------------------------------------
\* the file handler is not started: newParser and Parse are looked at alone
HandlerIdle ==
  /\ inFlight = {} /\ toParseMap = {} /\ toParseQueue = <<>> /\ watched = {}
  /\ dbTU = {} /\ dbStale = {} /\ jobs = EmptyBag /\ nExited = 0
  /\ loopPc = "select" /\ parseFileMsg = NoPath /\ pend = <<>>
  /\ expPc = "run" /\ expIdx = 1 /\ notExplored = {}
  /\ mainPc = "running" /\ panicked = FALSE /\ lastCase = "none"
  /\ reqs = <<>> /\ dbops = <<>> /\ nEvents = 0 /\ removed = {}

\* longest command, in tokens, that getCompArgs is run on
MaxTokens == 2

\* filepath.IsAbs
IsAbs(p) == p # <<>> /\ p[1] = "/"

\* index of the first separator of p, Len(p) + 1 when it has none
FirstSlash(p) ==
  CHOOSE k \in 1..(Len(p) + 1) :
    /\ k = Len(p) + 1 \/ p[k] = "/"
    /\ \A j \in 1..(k - 1) : p[j] # "/"

\* the elements of p between its separators, the empty ones left out
RECURSIVE Elems(_)
Elems(p) ==
  IF p = <<>> THEN <<>>
  ELSE LET k == FirstSlash(p)
       IN  (IF k = 1 THEN <<>> ELSE <<SubSeq(p, 1, k - 1)>>)
             \o Elems(SubSeq(p, k + 1, Len(p)))

\* filepath.Clean on the elements: "." is dropped, ".." removes the element
\* before it, is dropped at the root, and is kept in front of a relative path
RECURSIVE CleanElems(_, _, _)
CleanElems(es, out, rooted) ==
  IF es = <<>> THEN out
  ELSE LET e == Head(es)
       IN  IF e = <<".">> THEN CleanElems(Tail(es), out, rooted)
           ELSE IF e = <<".", ".">>
           THEN IF out # <<>> /\ out[Len(out)] # <<".", ".">>
                THEN CleanElems(Tail(es), SubSeq(out, 1, Len(out) - 1), rooted)
                ELSE IF rooted THEN CleanElems(Tail(es), out, rooted)
                ELSE CleanElems(Tail(es), Append(out, e), rooted)
           ELSE CleanElems(Tail(es), Append(out, e), rooted)

RECURSIVE JoinElems(_)
JoinElems(es) ==
  IF es = <<>> THEN <<>>
  ELSE IF Len(es) = 1 THEN es[1]
  ELSE es[1] \o <<"/">> \o JoinElems(Tail(es))

\* filepath.Clean
Clean(p) ==
  LET out == CleanElems(Elems(p), <<>>, IsAbs(p))
  IN  IF IsAbs(p) THEN <<"/">> \o JoinElems(out)
      ELSE IF out = <<>> THEN <<".">> ELSE JoinElems(out)

\* filepath.Abs in the working directory wd
Abs(wd, p) == IF IsAbs(p) THEN Clean(p) ELSE Clean(wd \o <<"/">> \o p)

\* filepath.Rel of two absolute paths
Rel(base, targ) ==
  LET b == CleanElems(Elems(base), <<>>, TRUE)
      t == CleanElems(Elems(targ), <<>>, TRUE)
      Common(n) == n <= Len(b) /\ n <= Len(t) /\ \A j \in 1..n : b[j] = t[j]
      n == CHOOSE k \in 0..Len(b) : Common(k) /\ ~Common(k + 1)
      r == [j \in 1..(Len(b) - n) |-> <<".", ".">>] \o SubSeq(t, n + 1, Len(t))
  IN  IF r = <<>> THEN <<".">> ELSE JoinElems(r)

\* fixCompDirArg; wd is what os.Getwd returns
fixCompDirArg(argDir, path, wd) ==
  IF IsAbs(path)
  THEN IF IsAbs(argDir) THEN argDir ELSE Clean(Abs(wd, argDir))
  ELSE IF IsAbs(argDir) THEN Clean(Rel(wd, argDir))
  ELSE Clean(path \o <<"/">> \o argDir)

\* tokens of a command
TokWall   == <<"-", "W">>
TokDefine == <<"-", "D", "F">>
TokD      == <<"-", "D">>
TokI      == <<"-", "I">>
TokIncRel == <<"-", "I", ".", ".", "/", "i">>
TokIncAbs == <<"-", "I", "/", "a">>
TokDir    == <<"i">>
TokFile   == <<"x", ".", "c">>

Tokens == {TokWall, TokDefine, TokD, TokI, TokIncRel, TokIncAbs, TokDir, TokFile}

\* strings.Fields(command) of the commands getCompArgs is run on
Commands == UNION {[1..n -> Tokens] : n \in 0..MaxTokens}

\* the roots given on the command line and the working directories
Roots == { <<"/", "p">>, <<"p">> }

WorkDirs == { <<"/", "p">>, <<"/", "w", "/", "u">> }

\* one iteration of the loop of getCompArgs; the index i + 1 past the end of
\* argsList is a run-time panic
GetCompArgsIter ==
  /\ ca.pc = "loop" /\ ca.i <= Len(ca.argsList)
  /\ LET arg  == ca.argsList[ca.i]
         last == ca.i = Len(ca.argsList)
         nxt  == [ca EXCEPT !.i = @ + 1]
     IN  ca' = IF arg = TokD
               THEN IF last THEN [ca EXCEPT !.pc = "panic"]
                    ELSE [nxt EXCEPT !.args = @ \o <<arg, ca.argsList[ca.i + 1]>>]
               ELSE IF HasPrefix(arg, TokD)
               THEN [nxt EXCEPT !.args = Append(@, arg)]
               ELSE IF arg = TokI
               THEN IF last THEN [ca EXCEPT !.pc = "panic"]
                    ELSE [nxt EXCEPT !.args = @ \o <<TokI, fixCompDirArg(ca.argsList[ca.i + 1], ca.path, ca.wd)>>]
               ELSE IF HasPrefix(arg, TokI)
               THEN [nxt EXCEPT !.args = @ \o <<TokI, fixCompDirArg(SubSeq(arg, 3, Len(arg)), ca.path, ca.wd)>>]
               ELSE nxt
  /\ UNCHANGED << inFlight, toParseMap, toParseQueue, watched, dbTU, dbStale, jobs, nExited,
                  loopPc, parseFileMsg, pend, expPc, expIdx, notExplored, mainPc,
                  panicked, lastCase, reqs, dbops, nEvents, removed, tu >>

\* getCompArgs returns args
GetCompArgsReturn ==
  /\ ca.pc = "loop" /\ ca.i > Len(ca.argsList)
  /\ ca' = [ca EXCEPT !.pc = "done"]
  /\ UNCHANGED << inFlight, toParseMap, toParseQueue, watched, dbTU, dbStale, jobs, nExited,
                  loopPc, parseFileMsg, pend, expPc, expIdx, notExplored, mainPc,
                  panicked, lastCase, reqs, dbops, nEvents, removed, tu >>

\* newParser calls getCompArgs(ca.Command, path) for an entry of the
\* compilation database of the root path
InitArgs ==
  /\ HandlerIdle
  /\ ca \in [pc : {"loop"}, argsList : Commands, path : Roots, wd : WorkDirs,
             i : {1}, args : {<<>>}]
  /\ tu = NoRun

NextArgs ==
  \/ GetCompArgsIter
  \/ GetCompArgsReturn

SpecArgs == InitArgs /\ [][NextArgs]_vars

\* ------------------------------------------------------------------------
\* Parse (parse.go): the visit of the cursor tree of one file
\* ------------------------------------------------------------------------
\* most cursors at the top of a cursor tree
MaxCursors == 2

\* a cursor of the tree: kind, USR, file and line of its location, whether
\* it is the definition of its entity, its spelling (for a parameter), the
\* USR and line of the entity it refers to, and its children
Cursor(kind, usr, file, line, isDef, spelling, children) ==
  [kind |-> kind, usr |-> usr, file |-> file, line |-> line, isDef |-> isDef,
   spelling |-> spelling, children |-> children]

NullSymbol == [usr |-> "null", file |-> "", line |-> 0]

ParmNamed == Cursor("ParmDecl", "f@x", "a.c", 2, FALSE, "x", <<>>)
ParmAnon  == Cursor("ParmDecl", "f@", "a.c", 1, FALSE, "", <<>>)
CallF     == Cursor("CallExpr", "f", "a.c", 7, FALSE, "f", <<>>)
FwdF      == Cursor("FunctionDecl", "f", "a.c", 1, FALSE, "f", <<ParmAnon>>)
DefF      == Cursor("FunctionDecl", "f", "a.c", 2, TRUE, "f", <<ParmNamed>>)
DeclG     == Cursor("FunctionDecl", "g", "a.c", 3, FALSE, "g", <<>>)
DefH      == Cursor("FunctionDecl", "h", "a.c", 4, TRUE, "h", <<CallF>>)
VarV      == Cursor("VarDecl", "v", "a.c", 5, TRUE, "v", <<>>)
MacroM    == Cursor("MacroDefinition", "m", "a.c", 6, TRUE, "m", <<>>)
SysDecl   == Cursor("FunctionDecl", "s", "", 1, FALSE, "s", <<ParmNamed>>)
Incl      == Cursor("InclusionDirective", "", "a.c", 1, FALSE, "b.h", <<>>)

TopCursors == {FwdF, DefF, DeclG, DefH, VarV, MacroM, SysDecl, Incl}

\* the cursor trees clang may return: the children of the translation unit
Trees == UNION {[1..n -> TopCursors] : n \in 0..MaxCursors}

\* every cursor of the tree
RECURSIVE AllCursors(_)
AllCursors(cs) ==
  IF cs = <<>> THEN <<>>
  ELSE <<Head(cs)>> \o AllCursors(Head(cs).children) \o AllCursors(Tail(cs))

\* getSymbolFromCursor
getSymbolFromCursor(cursor) == [usr |-> cursor.usr, file |-> cursor.file, line |-> cursor.line]

\* cursor.Definition(): the cursor of the tree that defines the entity of
\* cursor, the null cursor when the translation unit has none
Definition(tree, cursor) ==
  LET all  == AllCursors(tree)
      defs == {i \in DOMAIN all : all[i].usr = cursor.usr /\ all[i].isDef
                                    /\ all[i].kind = cursor.kind}
  IN  IF defs = {} THEN NullSymbol
      ELSE getSymbolFromCursor(all[CHOOSE i \in defs : \A j \in defs : i <= j])

\* cursor.Referenced(): the first declaration of the entity the cursor names
Referenced(tree, cursor) ==
  LET all   == AllCursors(tree)
      decls == {i \in DOMAIN all : all[i].usr = cursor.usr /\ all[i].kind = "FunctionDecl"}
  IN  IF decls = {} THEN NullSymbol
      ELSE getSymbolFromCursor(all[CHOOSE i \in decls : \A j \in decls : i <= j])

\* the snapshot (symbolsTUDB): declarations paired with their definition,
\* if any, uses and header edges, in the order they were inserted
EmptyTUDB == [decls |-> <<>>, uses |-> <<>>, headers |-> <<>>]

InsertSymbolDecl(db, cur) ==
  [db EXCEPT !.decls = Append(@, [decl |-> cur, def |-> NullSymbol])]

InsertSymbolDeclWithDef(db, cur, def) ==
  [db EXCEPT !.decls = Append(@, [decl |-> cur, def |-> def])]

InsertSymbolUse(db, cur, dec, isCall) ==
  [db EXCEPT !.uses = Append(@, [use |-> cur, decl |-> dec, call |-> isCall])]

InsertHeader(db, name, incFile) ==
  [db EXCEPT !.headers = Append(@, [name |-> name, file |-> incFile])]

DeclKinds == {"FunctionDecl", "StructDecl", "FieldDecl", "TypedefDecl", "EnumDecl",
              "EnumConstantDecl"}

RefKinds == {"DeclRefExpr", "TypeRef", "MemberRefExpr", "MacroExpansion"}

\* a faulty visitNode: a declaration that is not itself the definition is
\* recorded as a declaration only
visitNodeDeclOnly(db, tree, cursor) ==
  LET cur == getSymbolFromCursor(cursor)
  IN  IF cur.file = "" \/ cur.file = "."
      THEN [db |-> db, result |-> "Continue"]
      ELSE [result |-> "Recurse",
            db |-> IF cursor.kind \in DeclKinds
                   THEN IF cursor.isDef
                        THEN InsertSymbolDeclWithDef(db, cur, Definition(tree, cursor))
                        ELSE InsertSymbolDecl(db, cur)
                   ELSE IF cursor.kind = "MacroDefinition"
                   THEN InsertSymbolDeclWithDef(db, cur, cur)
                   ELSE IF cursor.kind = "VarDecl"
                   THEN InsertSymbolDecl(db, cur)
                   ELSE IF cursor.kind = "ParmDecl"
                   THEN IF cursor.spelling # "" THEN InsertSymbolDecl(db, cur) ELSE db
                   ELSE IF cursor.kind = "CallExpr"
                   THEN InsertSymbolUse(db, cur, Referenced(tree, cursor), TRUE)
                   ELSE IF cursor.kind \in RefKinds
                   THEN InsertSymbolUse(db, cur, Referenced(tree, cursor), FALSE)
                   ELSE IF cursor.kind = "InclusionDirective"
                   THEN InsertHeader(db, cursor.spelling, cursor.spelling)
                   ELSE db]

\* visitNode: the snapshot after the visit of cursor, and whether the
\* children of cursor are visited
visitNode(db, tree, cursor) ==
  LET cur == getSymbolFromCursor(cursor)
  IN  IF cur.file = "" \/ cur.file = "."
      THEN [db |-> db, result |-> "Continue"]
      ELSE [result |-> "Recurse",
            db |-> IF cursor.kind \in DeclKinds
                   THEN IF Definition(tree, cursor) # NullSymbol
                        THEN InsertSymbolDeclWithDef(db, cur, Definition(tree, cursor))
                        ELSE InsertSymbolDecl(db, cur)
                   ELSE IF cursor.kind = "MacroDefinition"
                   THEN InsertSymbolDeclWithDef(db, cur, cur)
                   ELSE IF cursor.kind = "VarDecl"
                   THEN InsertSymbolDecl(db, cur)
                   ELSE IF cursor.kind = "ParmDecl"
                   THEN IF cursor.spelling # "" THEN InsertSymbolDecl(db, cur) ELSE db
                   ELSE IF cursor.kind = "CallExpr"
                   THEN InsertSymbolUse(db, cur, Referenced(tree, cursor), TRUE)
                   ELSE IF cursor.kind \in RefKinds
                   THEN InsertSymbolUse(db, cur, Referenced(tree, cursor), FALSE)
                   ELSE IF cursor.kind = "InclusionDirective"
                   THEN InsertHeader(db, cursor.spelling, cursor.spelling)
                   ELSE db]

\* the visit of the next cursor, in pre-order
VisitNode ==
  /\ tu.pc = "visit" /\ tu.todo # <<>>
  /\ LET cursor == Head(tu.todo)
         r      == visitNode(tu.db, tu.tree, cursor)
     IN  tu' = [tu EXCEPT !.db = r.db,
                          !.todo = IF r.result = "Recurse"
                                   THEN cursor.children \o Tail(tu.todo)
                                   ELSE Tail(tu.todo)]
  /\ UNCHANGED << inFlight, toParseMap, toParseQueue, watched, dbTU, dbStale, jobs, nExited,
                  loopPc, parseFileMsg, pend, expPc, expIdx, notExplored, mainPc,
                  panicked, lastCase, reqs, dbops, nEvents, removed, ca >>

\* Parse returns the snapshot
ParseReturn ==
  /\ tu.pc = "visit" /\ tu.todo = <<>>
  /\ tu' = [tu EXCEPT !.pc = "done"]
  /\ UNCHANGED << inFlight, toParseMap, toParseQueue, watched, dbTU, dbStale, jobs, nExited,
                  loopPc, parseFileMsg, pend, expPc, expIdx, notExplored, mainPc,
                  panicked, lastCase, reqs, dbops, nEvents, removed, ca >>

\* Parse(file) after clang returned the translation unit
InitParse ==
  /\ HandlerIdle
  /\ ca = NoRun
  /\ tu \in [pc : {"visit"}, tree : Trees, todo : Trees, db : {EmptyTUDB}]
  /\ tu.todo = tu.tree

NextParse ==
  \/ VisitNode
  \/ ParseReturn

SpecParse == InitParse /\ [][NextParse]_vars

\* ------------------------------------------------------------------------
\* Properties of the parse scheduler
\* ------------------------------------------------------------------------
\* number of parses of f that were dispatched and not yet received back on
\* doneFile, the one at the send on parseFile included
Outstanding(f) ==
  CopiesIn(Job(f, FALSE), jobs) + CopiesIn(Job(f, TRUE), jobs)
    + (IF loopPc = "send" /\ parseFileMsg = f THEN 1 ELSE 0)

\* no parse is held by a worker, waits in the backlog or is being sent
Quiescent == jobs = EmptyBag /\ toParseQueue = <<>> /\ loopPc = "select"

\* C1 as stated: no path is at once in the in-flight set and in the backlog
\* (membership set or queue).
C1_NeverInBoth ==
  /\ inFlight \cap toParseMap = {}
  /\ \A i \in DOMAIN toParseQueue : toParseQueue[i] \notin inFlight

\* C1 amended: a step of the loop never puts a path that was in neither the
\* in-flight set nor the backlog into both of them; a path gets into both
\* only by being requested while it is in flight, or dispatched while it
\* waits in the backlog.
C1_RequestPlacesInOne ==
  [][\A f \in AllPaths :
        (f \notin inFlight /\ f \notin toParseMap) => ~(f \in inFlight' /\ f \in toParseMap')]_vars

\* a request for a path that was in neither has put it in flight only
C1_Witness ==
  /\ lastCase = "foundFile" /\ reqs = <<PA>>
  /\ PA \in inFlight /\ PA \notin toParseMap

\* C2: the in-flight set never holds more paths than there are workers.
C2_InFlightAtMostN == Cardinality(inFlight) <= nIndexingThreads

\* the in-flight set is full and a request had to wait in the backlog
C2_Witness == Cardinality(inFlight) = nIndexingThreads /\ toParseQueue # <<>>

\* C3: between the dispatch of a path and the receipt of its snapshot the
\* path is not dispatched again: no path has two parses outstanding.
C3_OneParsePerFile == \A f \in AllPaths : Outstanding(f) <= 1

\* C4: a snapshot is never inserted in the database when its file was
\* requested again after the parse that produced it was dispatched.
C4_StaleNeverCommitted ==
  \A i \in DOMAIN dbops : dbops[i].op = "insert" => ~dbops[i].stale

\* C5: once no parse is outstanding or waiting, the snapshot the database
\* holds of a file was not parsed before a later request for that file.
C5_LastCommitIsFresh == Quiescent => dbStale = {}

\* C6: a request for a path that waits in the backlog changes neither the
\* in-flight set nor the backlog, and the path is in the backlog once.
C6_RequestOfQueuedIsNoOp ==
  [][\A f \in AllPaths :
        (loopPc = "select" /\ f \in toParseMap /\ reqs' = <<f>>)
          => /\ inFlight' = inFlight
             /\ toParseQueue' = toParseQueue
             /\ toParseMap' = toParseMap
             /\ Cardinality({i \in DOMAIN toParseQueue : toParseQueue[i] = f}) = 1]_vars

\* C13: the loop is never at a send on parseFile while every worker holds
\* a parse (parsing, or at its send on doneFile, which only the loop
\* receives).
C13_DispatchNeverBlocks == ~(loopPc = "send" /\ nIdle = 0)

\* the loop takes a path to its send on parseFile in this step
Dispatches == loopPc' = "send" /\ (loopPc = "select" \/ jobs' # jobs)

\* C14 as stated: paths leave the backlog in the order they were appended,
\* and a path is dispatched while others wait in the backlog only if it is
\* the head of the backlog, which it leaves by the dispatch.
C14_BacklogFIFO ==
  [][(Dispatches /\ toParseQueue # <<>>)
       => /\ parseFileMsg' = Head(toParseQueue)
          /\ toParseQueue' = Tail(toParseQueue)]_vars

\* q is what is left of p after paths were appended to p
IsPrefix(p, q) == Len(p) <= Len(q) /\ SubSeq(q, 1, Len(p)) = p

\* C14 amended: the backlog changes only by paths appended at its end or by
\* its head leaving it, which happens when a completion is processed, one
\* path per completion, and the path that leaves is the one dispatched.
C14_BacklogPopsHead ==
  [][toParseQueue' # toParseQueue
       => \/ IsPrefix(toParseQueue, toParseQueue')
          \/ /\ toParseQueue # <<>>
             /\ toParseQueue' = Tail(toParseQueue)
             /\ lastCase' = "doneFile" /\ loopPc' = "send"
             /\ parseFileMsg' = Head(toParseQueue)]_vars

\* a completion was processed with two paths waiting: the head is at the
\* send on parseFile and the other path still waits
C14_Witness ==
  /\ lastCase = "doneFile" /\ loopPc = "send"
  /\ Len(toParseQueue) = 1 /\ parseFileMsg # toParseQueue[1]

\* C18: the backlog queue holds no path twice, and the membership set is
\* the set of the paths in the queue.
C18_BacklogConsistent ==
  /\ \A i, j \in DOMAIN toParseQueue : toParseQueue[i] = toParseQueue[j] => i = j
  /\ toParseMap = {toParseQueue[i] : i \in DOMAIN toParseQueue}

\* two paths wait in the backlog after one was popped from it
C18_Witness ==
  /\ Len(toParseQueue) = 2
  /\ lastCase = "doneFile" /\ loopPc = "select"

\* neither the loop nor a worker can take a step before another request
\* arrives: no parse is outstanding, or the loop is at its send on
\* parseFile and every worker holds a parse
NoStepLeft ==
  \/ loopPc = "select" /\ jobs = EmptyBag
  \/ loopPc = "send" /\ nIdle = 0

\* C19: when no parse is outstanding or can be handed back, nothing waits
\* in the backlog and the in-flight set is empty: every path appended to
\* the backlog is dispatched by the completion of a parse in flight.
C19_BacklogDrains == NoStepLeft => (toParseQueue = <<>> /\ inFlight = {})

\* ------------------------------------------------------------------------
\* Properties of the change event router
\* ------------------------------------------------------------------------
\* the file name of the path begins with '.'
Hidden(p) == Base(p)[1] = "."

\* the paths a handler passed to queueFileToParse, and those it passes once
\* its send on parseFile is received
Requested(rq, pd) ==
  LET IsC(s) == s.op = "c"
      cs == SelectSeq(pd, IsC)
  IN  rq \o [i \in 1..Len(cs) |-> cs[i].path]

\* the sequence lists each member of S once and nothing else
IsPermOf(seq, S) == Len(seq) = Cardinality(S) /\ {seq[i] : i \in DOMAIN seq} = S

\* handleChange takes the target for a file: os.Stat found a file, or found
\* nothing while the database has a record of the path
TreatedAsFile(name, stat) == stat = "file" \/ (stat = "notexist" /\ FileExist(dbTU, name))

HeaderNames == {p \in DiskPaths : validHString(p) /\ ~Hidden(p)}

SourceNames == {p \in DiskPaths : validCString(p) /\ ~Hidden(p)}

ChangeOps == Ops \ {{"Chmod"}}

\* C7 as stated: handling a create, write, remove or rename event of a
\* header requests each includer the database reports exactly once, and
\* the header is not put in the in-flight set or the backlog.
C7_EveryHeaderEvent ==
  \A h \in HeaderNames, op \in ChangeOps, stat \in Stats :
    CanHandle(h, stat)
      => \A order \in Perms(GetIncluders(dbTU, h)) :
           LET c == AfterEvent(h, op, stat, order)
           IN  /\ IsPermOf(Requested(c.reqs, c.pend), GetIncluders(dbTU, h))
               /\ h \notin c.inFlight \cup c.toParseMap

\* C7 amended: the same, for the events whose target handleChange takes for
\* a file (os.Stat finds a file, or finds nothing while the database has a
\* record of the header); the requests left behind a send on parseFile are
\* made when the send is received; no header is ever in the in-flight set
\* or the backlog.
C7_HeaderEventTakenForFile ==
  /\ [](\A h \in HeaderNames, op \in ChangeOps, stat \in Stats :
          (CanHandle(h, stat) /\ TreatedAsFile(h, stat))
            => \A order \in Perms(GetIncluders(dbTU, h)) :
                 LET c == AfterEvent(h, op, stat, order)
                 IN  IsPermOf(Requested(c.reqs, c.pend), GetIncluders(dbTU, h)))
  /\ [](\A p \in AllPaths : validHString(p) => p \notin inFlight \cup toParseMap)
  /\ [][loopPc = "send" => Requested(reqs', pend') = Requested(reqs, pend)]_vars

\* a header event was handled to its end and requested both includers
C7_Witness ==
  /\ lastCase = "event" /\ loopPc = "select"
  /\ Len(reqs) = 2 /\ {reqs[1], reqs[2]} = {PA, PC}

\* C8 as stated: a create or write event of a source file requests a parse
\* of it and a remove or rename event removes its records from the
\* database, whatever os.Stat and the database say of the path.
C8_EverySourceEvent ==
  \A f \in SourceNames, op \in ChangeOps, stat \in Stats :
    CanHandle(f, stat)
      => LET c == AfterEvent(f, op, stat, <<>>)
         IN  IF op \cap {"Create", "Write"} # {}
             THEN c.reqs = <<f>>
             ELSE c.dbops = <<[op |-> "remove", path |-> f, stale |-> FALSE]>>

\* C8 amended: the same, for the events whose target handleChange takes for
\* a file (os.Stat finds a file, or finds nothing while the database has a
\* record of the path).
C8_SourceEventTakenForFile ==
  \A f \in SourceNames, op \in ChangeOps, stat \in Stats :
    (CanHandle(f, stat) /\ TreatedAsFile(f, stat))
      => LET c == AfterEvent(f, op, stat, <<>>)
         IN  IF op \cap {"Create", "Write"} # {}
             THEN c.reqs = <<f>>
             ELSE c.dbops = <<[op |-> "remove", path |-> f, stale |-> FALSE]>>

\* a remove or rename event of p/a.c removed its records
C8_Witness ==
  /\ lastCase = "event"
  /\ dbops = <<[op |-> "remove", path |-> PA, stale |-> FALSE]>>
  /\ PA \notin dbTU

\* C9: handling a filesystem event never requests a parse of a hidden path
\* nor removes a hidden path from the database.
C9_HiddenIgnored ==
  lastCase = "event"
    => /\ \A i \in DOMAIN reqs : ~Hidden(reqs[i])
       /\ \A i \in DOMAIN dbops : ~Hidden(dbops[i].path)

\* C20: once no parse is outstanding or waiting, the database holds no
\* snapshot of a source file that a remove or rename event took out of it
\* and that was not requested since.
C20_RemovalNotUndone == Quiescent => removed \cap dbTU = {}

\* ------------------------------------------------------------------------
\* Properties of the startup reconciliation
\* ------------------------------------------------------------------------
\* C15: a step that exploreIndexDir takes alone (a directory visit of its
\* walk, or its return) changes neither the in-flight set, the backlog,
\* the watched directories nor the database.
C15_SingleMutator ==
  [][(ExploreVisitDir \/ ExploreDone)
       => UNCHANGED << inFlight, toParseMap, toParseQueue, watched, dbTU >>]_vars

\* the loop can receive path on removeFile: the walk is over, the path was
\* known, was not seen by the walk and is not under a system directory
CanPrune(path) ==
  /\ InPrune /\ loopPc = "select"
  /\ path \in notExplored /\ ~isSysInclDir(path)

\* the paths the startup walk passes to visitorC or visitorRest
Walked == {ExploreList[i].path : i \in {j \in DOMAIN ExploreList : ExploreList[j].op # "dir"}}

\* C16 as stated: every known file the walk did not see and that is not
\* under a system include directory has its records removed from the
\* database, be it a source file or a header.
C16_PruneRemovesAll ==
  \A path \in AllPaths :
    CanPrune(path)
      => \A order \in Perms(GetIncluders(dbTU, path)) :
           removeFile(Cur, path, order).dbops
             = <<[op |-> "remove", path |-> path, stale |-> FALSE]>>

\* C16 amended: such a file has its records removed unless it is a header;
\* for a header its includers are requested for parsing, once each, and
\* nothing is removed.  A file under a system include directory is never
\* removed, and exploreIndexDir returns only when every known file the
\* walk did not see was handled.
C16_PruneRemovesNonHeaders ==
  /\ \A path \in AllPaths :
       CanPrune(path)
         => \A order \in Perms(GetIncluders(dbTU, path)) :
              LET c == removeFile(Cur, path, order)
              IN  IF validHString(path)
                  THEN /\ c.dbops = <<>>
                       /\ IsPermOf(Requested(c.reqs, c.pend), GetIncluders(dbTU, path))
                  ELSE c.dbops = <<[op |-> "remove", path |-> path, stale |-> FALSE]>>
  /\ lastCase = "foundHeader" => dbops = <<>>
  /\ InPrune => notExplored \cap Walked = {}
  /\ expPc = "done" => notExplored = {}

\* the header p/o.h, known and not seen by the walk, was handled: its
\* includer p/o.c was requested and nothing was removed
C16_Witness ==
  /\ lastCase = "removeFile"
  /\ reqs = <<PO>> /\ dbops = <<>>
  /\ POH \notin notExplored

\* C17: a source file the startup walk found is requested exactly when
\* db.UptodateFile returns no error and reports the file as unknown or as
\* not up to date; otherwise the in-flight set and the backlog are left as
\* they are.
C17_FreshnessGate ==
  (InWalk /\ loopPc = "select" /\ ExploreList[expIdx].op = "c")
    => LET file  == ExploreList[expIdx].path
           exist == file \in dbTU
       IN  \A uptodate, err \in BOOLEAN :
             (exist \/ ~uptodate)
               => LET c == foundFile(Cur, file, exist, uptodate, err)
                  IN  /\ (c.reqs = <<file>>) <=> (~err /\ (~exist \/ ~uptodate))
                      /\ c.reqs # <<file>>
                           => /\ c.reqs = <<>>
                              /\ c.inFlight = inFlight
                              /\ c.toParseMap = toParseMap
                              /\ c.toParseQueue = toParseQueue

\* the walk found p/a.c, which the database knows, and did not request it
C17_Witness ==
  /\ lastCase = "foundFile" /\ reqs = <<>>
  /\ expIdx = 3 /\ PA \in dbTU /\ PA \notin inFlight \cup toParseMap

\* ------------------------------------------------------------------------
\* Properties of the parser
\* ------------------------------------------------------------------------
\* the include directory as the claim gives it: a relative directory is
\* anchored at the root and normalized; an absolute one is what
\* fixCompDirArg makes of it
ExpectedDir(dir, root, wd) ==
  IF IsAbs(dir) THEN fixCompDirArg(dir, root, wd)
  ELSE Clean(root \o <<"/">> \o dir)

\* the argument list as the claim gives it: the defines verbatim (-D with
\* the token after it), -I with the directory for both forms of an
\* include, nothing for any other token
RECURSIVE ExpectedArgs(_, _, _)
ExpectedArgs(toks, root, wd) ==
  IF toks = <<>> THEN <<>>
  ELSE LET t == Head(toks)
       IN  IF t = TokD
           THEN IF Len(toks) = 1 THEN <<>>
                ELSE <<t, toks[2]>> \o ExpectedArgs(Tail(Tail(toks)), root, wd)
           ELSE IF HasPrefix(t, TokD)
           THEN <<t>> \o ExpectedArgs(Tail(toks), root, wd)
           ELSE IF t = TokI
           THEN IF Len(toks) = 1 THEN <<>>
                ELSE <<TokI, ExpectedDir(toks[2], root, wd)>>
                       \o ExpectedArgs(Tail(Tail(toks)), root, wd)
           ELSE IF HasPrefix(t, TokI)
           THEN <<TokI, ExpectedDir(SubSeq(t, 3, Len(t)), root, wd)>>
                  \o ExpectedArgs(Tail(toks), root, wd)
           ELSE ExpectedArgs(Tail(toks), root, wd)

\* C11: getCompArgs returns, for every command, the defines verbatim and
\* "-I" with the normalized directory for each include, in command order,
\* a relative directory anchored at the root; every other token is dropped
\* and no token is emitted twice.
C11_ArgumentExtraction ==
  ca.pc = "done" => ca.args = ExpectedArgs(ca.argsList, ca.path, ca.wd)

\* the records of the snapshot whose declaration is the entity usr
DeclRecords(db, usr) ==
  LET Of(r) == r.decl.usr = usr
  IN  SelectSeq(db.decls, Of)

\* the function declarations of usr the visit reaches in the tree
DeclCursors(tree, usr) ==
  LET Is(c) == c.kind = "FunctionDecl" /\ c.usr = usr /\ c.file # ""
  IN  SelectSeq(tree, Is)

\* the tree holds a forward declaration and a body of the function usr
HasFwdAndBody(tree, usr) ==
  /\ \E i \in DOMAIN DeclCursors(tree, usr) : DeclCursors(tree, usr)[i].isDef
  /\ \E i \in DOMAIN DeclCursors(tree, usr) : ~DeclCursors(tree, usr)[i].isDef

FunctionUsrs == {"f", "g", "h"}

ShutdownHangs ==
  /\ mainPc = "wait" /\ loopPc = "exit" /\ expPc = "run"
  /\ IF expIdx <= Len(ExploreList) THEN ExploreList[expIdx].op # "dir" ELSE notExplored # {}

\* C10: after closeFilesHandler closed the channels no goroutine sends on a
\* closed channel, every goroutine returns, and the final flush comes after
\* they all returned.
C10_CleanShutdown ==
  /\ ~panicked
  /\ ~ShutdownHangs
  /\ mainPc = "flushed" => AllDone

====
